---- MODULE Spec2Model ----
(***************************************************************************)
(* Model of src/fetch_fred_data.py: the module-level script that loads the *)
(* FRED_API_KEY credential and calls get_fred_series_and_export_csv, which *)
(* fetches every series of a name -> series-id mapping, cleans it and      *)
(* writes one CSV file per series under data/.                             *)
(*                                                                         *)
(* Strings that the code transforms character by character (the display    *)
(* name) are sequences of one-character strings; tokens that the code      *)
(* hands to a parser (dates, values) are strings with the parser given as  *)
(* a table over the tokens of the model.                                   *)
(***************************************************************************)
EXTENDS Integers, Sequences, FiniteSets, TLC

\* ---------------------------------------------------------------- bounds
MaxSeries == 2      \* entries of the mapping in a batch
MaxObs == 2         \* observations in one response
MaxRuns == 2        \* times the script is started

\* ------------------------------------------------- the inputs of the model
\* Display names (keys of series_ids_dict), and the series id of each.
NameAB == <<"A", " ", "B">>
Name_ab == <<"a", "_", "b">>
NameC == <<"C">>
NameSet == {NameAB, Name_ab, NameC}

fred_series_to_fetch(name) ==
    CASE name = NameAB -> "UNRATE"
      [] name = Name_ab -> "DFF"
      [] OTHER -> "GDPC1"

DateTokens == {"2020-01-01", "2020-02-01", "bad"}
ValueTokens == {"3.5", "12", "."}

\* One observation as the API returns it; the realtime markers are present
\* in every record of a response or in none.
PlainObs == [date : DateTokens, value : ValueTokens]
WithRealtime(o) ==
    [realtime_start |-> "x", realtime_end |-> "y", date |-> o.date, value |-> o.value]
PlainLists == UNION {[1..n -> PlainObs] : n \in 0..MaxObs}
ObsLists == PlainLists \cup {[k \in DOMAIN l |-> WithRealtime(l[k])] : l \in PlainLists}

None == <<>>
OkResponse(payload) == [status |-> "ok", json |-> TRUE, data |-> payload]
HttpError == [status |-> "http_error", json |-> FALSE, data |-> None]
NetworkError == [status |-> "network_error", json |-> FALSE, data |-> None]
Malformed == [status |-> "ok", json |-> FALSE, data |-> None]
NoObservationsField == OkResponse([error_message |-> "Bad Request"])
Responses ==
    {HttpError, NetworkError, Malformed, NoObservationsField}
        \cup {OkResponse([observations |-> l]) : l \in ObsLists}

\* Responses used for the entries of a batch of several series.
SampleResponses ==
    { HttpError, Malformed, NoObservationsField,
      OkResponse([observations |-> <<>>]),
      OkResponse([observations |->
          << WithRealtime([date |-> "2020-01-01", value |-> "3.5"]),
             WithRealtime([date |-> "2020-02-01", value |-> "."]) >>]),
      OkResponse([observations |-> << [date |-> "2020-01-01", value |-> "."] >>]),
      OkResponse([observations |-> << [date |-> "bad", value |-> "12"] >>]),
      OkResponse([observations |-> << [date |-> "2020-02-01", value |-> "12"] >>]) }

Entry(name, resp) == [name |-> name, series_id |-> fred_series_to_fetch(name), resp |-> resp]

\* A dict has no two entries with the same key.
DistinctNames(m) == \A a, b \in DOMAIN m : a # b => m[a].name # m[b].name

SingleMappings == {<<Entry(nm, r)>> : nm \in NameSet, r \in Responses}
\* Batches whose k-th entry has the k-th name.
NameSeq == <<NameAB, Name_ab, NameC>>
OrderedMappings ==
    UNION {{[k \in 1..n |-> Entry(NameSeq[k], rs[k])] : rs \in [1..n -> SampleResponses]} :
             n \in 0..MaxSeries}
BatchMappings ==
    {m \in UNION {[1..n -> {Entry(nm, r) : nm \in NameSet, r \in SampleResponses}] :
                    n \in 0..MaxSeries} : DistinctNames(m)}

\* ------------------------------------------------------- pure operations
\* str.lower() and str.replace(' ', '_') of line 67.
LowerChar(c) == IF c = "A" THEN "a" ELSE IF c = "B" THEN "b" ELSE IF c = "C" THEN "c" ELSE c
lower(s) == [k \in DOMAIN s |-> LowerChar(s[k])]
replace(s, old, new) == [k \in DOMAIN s |-> IF s[k] = old THEN new ELSE s[k]]
data_folder == <<"d", "a", "t", "a">>
Filename(name) == data_folder \o <<"/">> \o replace(lower(name), " ", "_") \o <<".", "c", "s", "v">>

\* pd.DataFrame(list of dicts): the columns are the keys in the order of the
\* JSON object, one row per dict.
KeyOrder == <<"realtime_start", "realtime_end", "date", "value">>
InKeys(rec, k) == k \in DOMAIN rec
DataFrame(obs) ==
    [columns |-> IF obs = <<>> THEN <<>>
                 ELSE SelectSeq(KeyOrder, LAMBDA k : InKeys(obs[1], k)),
     rows |-> obs]

\* Line 50.
columns_to_drop == {"realtime_start", "realtime_end"}

\* Mutant: the realtime columns are not dropped.
DropNothing(df) == df

\* df.drop(columns=[col for col in columns_to_drop if col in df.columns])
Kept(c) == c \notin columns_to_drop
Restrict(row, cols) == [c \in {cols[k] : k \in DOMAIN cols} |-> row[c]]
DropColumns(df) ==
    LET cols == SelectSeq(df.columns, Kept)
    IN  [columns |-> cols,
         rows |-> [k \in DOMAIN df.rows |-> Restrict(df.rows[k], cols)]]

\* pd.to_datetime on one token: a Timestamp, or a ValueError.
ParseDate(tok) ==
    CASE tok = "2020-01-01" -> [ok |-> TRUE, year |-> 2020, month |-> 1, day |-> 1]
      [] tok = "2020-02-01" -> [ok |-> TRUE, year |-> 2020, month |-> 2, day |-> 1]
      [] OTHER -> [ok |-> FALSE, year |-> 0, month |-> 0, day |-> 0]
DatesParse(df) == \A k \in DOMAIN df.rows : ParseDate(df.rows[k]["date"]).ok
to_datetime(df) ==
    [df EXCEPT !.rows = [k \in DOMAIN df.rows |->
        [df.rows[k] EXCEPT !["date"] = ParseDate(df.rows[k]["date"])]]]

\* pd.to_numeric(errors='coerce') on one token: the number in tenths and
\* whether the token is an integer literal, or NaN.
ParseNumber(tok) ==
    CASE tok = "3.5" -> [nan |-> FALSE, isint |-> FALSE, tenths |-> 35]
      [] tok = "12" -> [nan |-> FALSE, isint |-> TRUE, tenths |-> 120]
      [] OTHER -> [nan |-> TRUE, isint |-> FALSE, tenths |-> 0]
\* The column is int64 when every token is an integer literal, else float64.
to_numeric(df) ==
    LET parsed == [k \in DOMAIN df.rows |-> ParseNumber(df.rows[k]["value"])]
        dtype == IF \A k \in DOMAIN parsed : parsed[k].isint THEN "int64" ELSE "float64"
    IN  [df EXCEPT !.rows = [k \in DOMAIN df.rows |->
            [df.rows[k] EXCEPT !["value"] =
                [dtype |-> dtype, nan |-> parsed[k].nan, tenths |-> parsed[k].tenths]]]]

\* Mutant: the values that are present are counted.
notna_sum(df) == Cardinality({k \in DOMAIN df.rows : ~df.rows[k]["value"].nan})

\* df['value'].isna().sum()
isna_sum(df) == Cardinality({k \in DOMAIN df.rows : df.rows[k]["value"].nan})

\* df.rename(columns={'value': series_id})
RenameCol(c, series_id) == IF c = "value" THEN series_id ELSE c
rename(df, series_id) ==
    LET old == df.columns
        new == [k \in DOMAIN old |-> RenameCol(old[k], series_id)]
    IN  [columns |-> new,
         rows |-> [r \in DOMAIN df.rows |->
                    [c \in {new[k] : k \in DOMAIN new} |->
                        IF c = series_id THEN df.rows[r]["value"] ELSE df.rows[r][c]]]]

\* df['date'], df['value']: a KeyError when the column is absent.
HasColumn(df, c) == \E k \in DOMAIN df.columns : df.columns[k] = c

\* Mutant: a frame whose values are all missing counts as empty.
IsEmptyAllMissing(df) ==
    \A k \in DOMAIN df.rows : df.rows[k][df.columns[Len(df.columns)]].nan

\* df.empty
IsEmpty(df) == df.rows = <<>> \/ df.columns = <<>>

\* df.to_csv(filename, index=False): a header line and one line per row, each
\* a sequence of cells; a Timestamp at midnight prints as its date, a float
\* with its decimal point, NaN as the empty string.
FormatDate(ts) ==
    CASE ts.year = 2020 /\ ts.month = 1 /\ ts.day = 1 -> "2020-01-01"
      [] ts.year = 2020 /\ ts.month = 2 /\ ts.day = 1 -> "2020-02-01"
      [] OTHER -> "NaT"
FormatNumber(v) ==
    IF v.nan THEN ""
    ELSE CASE v.dtype = "int64" /\ v.tenths = 120 -> "12"
           [] v.dtype = "float64" /\ v.tenths = 120 -> "12.0"
           [] v.tenths = 35 -> "3.5"
           [] OTHER -> "?"
FormatCell(col, cell) ==
    IF col = "date" THEN FormatDate(cell)
    ELSE IF col \in columns_to_drop THEN cell
    ELSE FormatNumber(cell)
to_csv(df) ==
    [header |-> df.columns,
     rows |-> [r \in DOMAIN df.rows |->
                [k \in DOMAIN df.columns |-> FormatCell(df.columns[k], df.rows[r][df.columns[k]])]]]

\* ----------------------------------------------------------------- state
VARIABLES
    fred_api_key,      \* TRUE when os.getenv("FRED_API_KEY") is not None
    dirExists,         \* whether the directory data/ exists
    mapping,           \* series_ids_dict with the upstream's response per entry
    pc,                \* position of the script
    i,                 \* number of the mapping entry the loop is at
    total_nas_found,
    data,              \* response.json()
    df,
    fs,                \* the files under data/: path -> content
    out,               \* the lines printed so far by this run
    requests,          \* the entries an HTTP GET was issued for, in order
    run,               \* how many times the script has been started
    prevFs             \* the files as the previous run of the script left them

vars == <<fred_api_key, dirExists, mapping, pc, i, total_nas_found, data, df, fs,
          out, requests, run, prevFs>>

Line(msg, sid, n) == [msg |-> msg, sid |-> sid, n |-> n]
series_id == mapping[i].series_id

InitWith(mappings) ==
    /\ fred_api_key \in BOOLEAN
    /\ dirExists \in BOOLEAN
    /\ mapping \in mappings
    /\ pc = "main"
    /\ i = 0
    /\ total_nas_found = 0
    /\ data = None
    /\ df = None
    /\ fs = <<>>
    /\ out = <<>>
    /\ requests = <<>>
    /\ run = 1
    /\ prevFs = <<>>

Init == InitWith(SingleMappings \cup BatchMappings)

\* Mutant: the exception is not caught and ends the script.
ExceptUncaught(handler) ==
    /\ out' = Append(out, Line("traceback", series_id, 0))
    /\ pc' = "crashed"

\* Mutant: the except clause returns from the function.
ExceptReturns(handler) ==
    /\ out' = Append(out, Line(handler, series_id, 0))
    /\ pc' = "done"

\* An except clause of lines 71-76: the error is printed and the loop goes on.
Except(handler) ==
    /\ out' = Append(out, Line(handler, series_id, 0))
    /\ pc' = "for"

\* Mutant: the function is called without the credential check.
CheckKeyUnchecked ==
    /\ pc = "main"
    /\ pc' = "for"
    /\ out' = out
    /\ i' = 0
    /\ total_nas_found' = 0
    /\ UNCHANGED <<fred_api_key, dirExists, mapping, data, df, fs, requests, run, prevFs>>

\* Lines 84-94 and 18-23: the credential check, then the call.
CheckKey ==
    /\ pc = "main"
    /\ IF fred_api_key
       THEN /\ pc' = "for"
            /\ out' = out
       ELSE /\ pc' = "aborted"
            /\ out' = Append(out, Line("key_not_found", "", 0))
    /\ i' = 0
    /\ total_nas_found' = 0
    /\ UNCHANGED <<fred_api_key, dirExists, mapping, data, df, fs, requests, run, prevFs>>

\* Mutant: an entry whose handling ended in an error is tried again.
ForNextRetry ==
    /\ pc = "for"
    /\ LET failed == out # <<>> /\ out[Len(out)].msg \in {"request_error", "value_error",
                                                          "unexpected_error"}
           next == IF failed THEN i ELSE i + 1
       IN  /\ next <= Len(mapping)
           /\ i' = next
           /\ out' = Append(out, Line("attempt", mapping[next].series_id, 0))
    /\ pc' = "get"
    /\ UNCHANGED <<fred_api_key, dirExists, mapping, total_nas_found, data, df, fs,
                   requests, run, prevFs>>

\* Lines 25-36: the next entry of the mapping.
ForNext ==
    /\ pc = "for"
    /\ i < Len(mapping)
    /\ i' = i + 1
    /\ out' = Append(out, Line("attempt", mapping[i + 1].series_id, 0))
    /\ pc' = "get"
    /\ UNCHANGED <<fred_api_key, dirExists, mapping, total_nas_found, data, df, fs,
                   requests, run, prevFs>>

\* Lines 39-41: requests.get, raise_for_status, response.json().  A body that
\* is not JSON raises a ValueError that, depending on the requests release,
\* is a RequestException too, and then the first except clause takes it.
HttpGet ==
    /\ pc = "get"
    /\ requests' = Append(requests, i)
    /\ LET resp == mapping[i].resp
       IN  \/ /\ resp.status # "ok"
              /\ Except("request_error")
              /\ data' = data
           \/ /\ resp.status = "ok" /\ ~resp.json
              /\ \/ Except("request_error")
                 \/ Except("value_error")
              /\ data' = data
           \/ /\ resp.status = "ok" /\ resp.json
              /\ data' = resp.data
              /\ pc' = "check"
              /\ out' = out
    /\ UNCHANGED <<fred_api_key, dirExists, mapping, i, total_nas_found, df, fs, run, prevFs>>

\* Mutant: only the absence of the field is checked.
FieldMissing(d) == "observations" \notin DOMAIN d

\* Line 43.
NoObservations(d) == "observations" \notin DOMAIN d \/ d.observations = <<>>

\* Lines 43-45.
CheckObservations ==
    /\ pc = "check"
    /\ IF NoObservations(data)
       THEN /\ out' = Append(out, Line("no_observations", series_id, 0))
            /\ pc' = "for"
       ELSE /\ out' = out
            /\ pc' = "clean"
    /\ UNCHANGED <<fred_api_key, dirExists, mapping, i, total_nas_found, data, df, fs,
                   requests, run, prevFs>>

\* Lines 47-66.
Clean ==
    /\ pc = "clean"
    /\ LET df1 == DropColumns(DataFrame(data.observations))
       IN  IF ~HasColumn(df1, "date") \/ ~HasColumn(df1, "value")
           THEN /\ df' = df1
                /\ Except("unexpected_error")
                /\ total_nas_found' = total_nas_found
           ELSE IF ~DatesParse(df1)
           THEN /\ df' = df1
                /\ Except("value_error")
                /\ total_nas_found' = total_nas_found
           ELSE LET df2 == to_numeric(to_datetime(df1))
                    nas_in_current_series == isna_sum(df2)
                    df3 == rename(df2, series_id)
                    printed == IF nas_in_current_series > 0
                               THEN Append(out, Line("found_na", series_id, nas_in_current_series))
                               ELSE out
                IN  /\ total_nas_found' = total_nas_found + nas_in_current_series
                    /\ df' = df3
                    /\ IF IsEmpty(df3)
                       THEN /\ out' = Append(printed, Line("no_valid", series_id, 0))
                            /\ pc' = "for"
                       ELSE /\ out' = printed
                            /\ pc' = "write"
    /\ UNCHANGED <<fred_api_key, dirExists, mapping, i, data, fs, requests, run, prevFs>>

\* Mutant: the file is opened for appending.
WriteAppend ==
    /\ pc = "write"
    /\ IF dirExists
       THEN /\ LET path == Filename(mapping[i].name)
                   new == to_csv(df)
               IN  fs' = (path :> IF path \in DOMAIN fs
                                  THEN [header |-> fs[path].header,
                                        rows |-> fs[path].rows \o new.rows]
                                  ELSE new) @@ fs
            /\ out' = Append(out, Line("saved", series_id, Len(df.rows)))
            /\ pc' = "for"
       ELSE /\ fs' = fs
            /\ Except("unexpected_error")
    /\ UNCHANGED <<fred_api_key, dirExists, mapping, i, total_nas_found, data, df,
                   requests, run, prevFs>>

\* Lines 67-69.  to_csv raises an OSError when data/ does not exist.
Write ==
    /\ pc = "write"
    /\ IF dirExists
       THEN /\ fs' = (Filename(mapping[i].name) :> to_csv(df)) @@ fs
            /\ out' = Append(out, Line("saved", series_id, Len(df.rows)))
            /\ pc' = "for"
       ELSE /\ fs' = fs
            /\ Except("unexpected_error")
    /\ UNCHANGED <<fred_api_key, dirExists, mapping, i, total_nas_found, data, df,
                   requests, run, prevFs>>

\* Lines 78-79 and 163.
Summary ==
    /\ pc = "for"
    /\ i >= Len(mapping)
    /\ out' = out \o <<Line("completed", "", 0), Line("summary", "", total_nas_found),
                       Line("process_completed", "", 0)>>
    /\ pc' = "done"
    /\ UNCHANGED <<fred_api_key, dirExists, mapping, i, total_nas_found, data, df, fs,
                   requests, run, prevFs>>

\* The script is started again, on the files the previous run left, with the
\* same environment and an unchanged upstream.
Rerun ==
    /\ pc \in {"done", "aborted"}
    /\ run < MaxRuns
    /\ run' = run + 1
    /\ prevFs' = fs
    /\ pc' = "main"
    /\ i' = 0
    /\ total_nas_found' = 0
    /\ data' = None
    /\ df' = None
    /\ out' = <<>>
    /\ requests' = <<>>
    /\ UNCHANGED <<fred_api_key, dirExists, mapping, fs>>

Step == CheckKey \/ ForNext \/ HttpGet \/ CheckObservations \/ Clean \/ Write \/ Summary

Next == Step \/ Rerun

Spec == Init /\ [][Next]_vars

\* One run of the script over a batch, in which every step of the sequential
\* script is eventually taken (each blocking call returns).
BatchInit == InitWith(OrderedMappings)
FairSpec == BatchInit /\ [][Step]_vars /\ WF_vars(Step)

\* ------------------------------------------------------------ properties
Last(q) == q[Len(q)]
HasLine(msg) == \E k \in DOMAIN out : out[k].msg = msg
Lines(msg) == SelectSeq(out, LAMBDA l : l.msg = msg)

\* The lines that end the handling of one series.
TerminalMsgs == {"saved", "no_observations", "no_valid", "request_error", "value_error",
                 "unexpected_error"}
Handled == Len(SelectSeq(out, LAMBDA l : l.msg \in TerminalMsgs))

\* What the upstream answered for an entry, read off the response itself.
TransportFailed(e) == e.resp.status \in {"http_error", "network_error"}
Parsed(e) == e.resp.status = "ok" /\ e.resp.json
ObsOf(e) == IF Parsed(e) /\ "observations" \in DOMAIN e.resp.data
            THEN e.resp.data.observations ELSE <<>>
WellFormed(e) == Len(ObsOf(e)) > 0 /\ \A k \in DOMAIN ObsOf(e) : ObsOf(e)[k].date # "bad"
NonNumeric(tok) == tok \notin {"3.5", "12"}
Coerced(e) ==
    IF WellFormed(e)
    THEN Cardinality({k \in DOMAIN ObsOf(e) : NonNumeric(ObsOf(e)[k].value)})
    ELSE 0
RECURSIVE SumCoerced(_)
SumCoerced(m) == IF m = <<>> THEN 0 ELSE Coerced(Head(m)) + SumCoerced(Tail(m))

\* C1: whatever the outcome of each series (transport failure, malformed
\* JSON, no observations, an error while cleaning or writing), a run that
\* has the credential goes through every entry of the mapping and reaches
\* the final summary, which prints the total of missing values.
C1_Finished ==
    /\ pc = "done"
    /\ i = Len(mapping)
    /\ Len(requests) = Len(mapping)
    /\ Handled = Len(mapping)
    /\ \E k \in DOMAIN out : out[k] = Line("summary", "", total_nas_found)
C1_RunReachesSummary == (pc = "main" /\ fred_api_key) ~> C1_Finished
C1_Witness ==
    /\ C1_Finished
    /\ Len(mapping) = MaxSeries
    /\ HasLine("request_error")
    /\ HasLine("unexpected_error") \/ HasLine("value_error") \/ HasLine("no_observations")

\* C2: without the credential the function is never entered: no request is
\* issued, no file is written, and nothing but the instructional message is
\* printed.
C2_NoKeyNoWork ==
    ~fred_api_key =>
        /\ pc \in {"main", "aborted"}
        /\ requests = <<>>
        /\ fs = <<>>
        /\ out \in {<<>>, <<Line("key_not_found", "", 0)>>}
        /\ pc = "aborted" => out = <<Line("key_not_found", "", 0)>>
C2_Witness == ~fred_api_key /\ pc = "aborted" /\ Len(mapping) > 0

\* C3: the file written for a series with a well-formed, non-empty
\* observations list has exactly the columns date and <series_id>, and one
\* row of two cells per observation, in the order of the API.
JustSaved == pc = "for" /\ i > 0 /\ out # <<>> /\ Last(out).msg = "saved"
C3_FileShape ==
    JustSaved /\ WellFormed(mapping[i]) =>
        LET f == fs[Filename(mapping[i].name)]
            obs == ObsOf(mapping[i])
        IN  /\ f.header = <<"date", mapping[i].series_id>>
            /\ Len(f.rows) = Len(obs)
            /\ \A k \in DOMAIN obs : Len(f.rows[k]) = 2 /\ f.rows[k][1] = obs[k].date
C3_Witness ==
    /\ JustSaved /\ WellFormed(mapping[i])
    /\ Len(ObsOf(mapping[i])) = MaxObs
    /\ "realtime_start" \in DOMAIN ObsOf(mapping[i])[1]
    /\ ObsOf(mapping[i])[1].date = "2020-02-01"
    /\ ObsOf(mapping[i])[2].date = "2020-01-01"

\* C4: after a run that started with no file under data/, there are as many
\* files as series whose export succeeded.
C4_OneFilePerSavedSeries ==
    (pc = "done" /\ run = 1) => Cardinality(DOMAIN fs) = Len(Lines("saved"))

\* C5: a parsed response without the observations field, or with an empty
\* list, writes no file, leaves the counter unchanged, logs the skip and
\* goes on to the next entry of the loop.
C5_Case == pc = "check" /\ Parsed(mapping[i]) /\ Len(ObsOf(mapping[i])) = 0
C5_EmptySkipped ==
    [][C5_Case =>
        /\ fs' = fs
        /\ total_nas_found' = total_nas_found
        /\ out' = Append(out, Line("no_observations", mapping[i].series_id, 0))
        /\ pc' = "for"
        /\ i' = i]_vars
C5_Witness ==
    /\ pc = "get" /\ i = 2
    /\ Parsed(mapping[1]) /\ Len(ObsOf(mapping[1])) = 0
    /\ "observations" \in DOMAIN mapping[1].resp.data
    /\ out[Len(out) - 1] = Line("no_observations", mapping[1].series_id, 0)

\* C6: non-numeric value tokens never fail a series: the series is saved
\* with all its rows (when data/ exists), and the total printed in the
\* summary is the number of non-numeric tokens of the series that were
\* cleaned.
C6_MissingCounted ==
    pc = "done" =>
        /\ \E k \in DOMAIN out : out[k] = Line("summary", "", SumCoerced(mapping))
        /\ \A k \in DOMAIN mapping :
            WellFormed(mapping[k]) /\ dirExists =>
                \E j \in DOMAIN out :
                    out[j] = Line("saved", mapping[k].series_id, Len(ObsOf(mapping[k])))
C6_Witness ==
    /\ pc = "done" /\ dirExists /\ Len(mapping) = MaxSeries
    /\ \A k \in DOMAIN mapping : Coerced(mapping[k]) > 0
    /\ Len(Lines("saved")) = MaxSeries
    /\ total_nas_found >= MaxSeries

\* C7: a series that fails in transport writes no file and adds nothing to
\* the counter, and the run ends with the files, the saved lines and the
\* counter of the run over the mapping without the failing series.
ExportOf(e) ==
    IF WellFormed(e)
    THEN to_csv(rename(to_numeric(to_datetime(DropColumns(DataFrame(ObsOf(e))))), e.series_id))
    ELSE None
RECURSIVE RunOver(_, _)
RunOver(m, acc) ==
    IF m = <<>> THEN acc
    ELSE LET e == Head(m)
             saves == WellFormed(e) /\ dirExists
         IN  RunOver(Tail(m),
                [files |-> IF saves THEN (Filename(e.name) :> ExportOf(e)) @@ acc.files
                           ELSE acc.files,
                 total |-> acc.total + Coerced(e),
                 saved |-> IF saves THEN Append(acc.saved, e.series_id) ELSE acc.saved])
Survivors == SelectSeq(mapping, LAMBDA e : ~TransportFailed(e))
C7_TransportFailureIsolated ==
    pc = "done" =>
        LET want == RunOver(Survivors, [files |-> prevFs, total |-> 0, saved |-> <<>>])
        IN  /\ fs = want.files
            /\ total_nas_found = want.total
            /\ [k \in DOMAIN Lines("saved") |-> Lines("saved")[k].sid] = want.saved
C7_Witness ==
    /\ pc = "done" /\ run = 1
    /\ Len(mapping) = MaxSeries
    /\ TransportFailed(mapping[1])
    /\ Len(Survivors) = MaxSeries - 1
    /\ Len(Lines("saved")) = MaxSeries - 1
    /\ total_nas_found > 0

\* C8: a second run of the script with the same mapping, the same date range
\* and the same upstream responses leaves the files as the first run left
\* them.
C8_RerunIdempotent == (pc = "done" /\ run > 1) => fs = prevFs
C8_Witness == pc = "done" /\ run = 2 /\ Cardinality(DOMAIN fs) = 2 /\ HasLine("saved")

\* C9: one HTTP GET per entry, in the order of the mapping; a request is
\* issued only when every earlier entry has been handled, and no entry is
\* requested twice.
C9_OneRequestPerEntryInOrder ==
    /\ requests = [k \in 1..Len(requests) |-> k]
    /\ Len(requests) <= Len(mapping)
    /\ pc = "get" => Len(requests) = i - 1 /\ Handled = i - 1
    /\ pc \in {"check", "clean", "write"} => Len(requests) = i /\ Handled = i - 1
    /\ pc = "for" => Len(requests) = i /\ Handled = i
    /\ pc = "done" => Len(requests) = Len(mapping) /\ Handled = Len(mapping)
C9_Witness ==
    /\ pc = "done" /\ requests = [k \in 1..MaxSeries |-> k]
    /\ TransportFailed(mapping[1])

====
